---- MODULE Spec2Model ----
(***************************************************************************)
(* Model of the latency-measurement programs of 5G-measurement:            *)
(*   testbed-5G-latency/dl-latency-udp/client.cpp  (datagram tracker)      *)
(*   testbed-5G-latency/dl-latency-tcp/client.cpp  (stream tracker)        *)
(*   testbed-5G-latency/dl-latency-udp/server.cpp  (datagram emitter)      *)
(*   commerical-5G-latency-decompose/multiple-packet-dl-decompose/         *)
(*     aws_server.cpp                              (trigger emitter)       *)
(* The variable prog says which program is running. The two trackers have  *)
(* the same globals (running, requests, output_file), which the model      *)
(* shares; each emitter has a specification of its own, the trigger         *)
(* emitter one for a single connection and one for its listener with the   *)
(* threads of several connections.                                         *)
(***************************************************************************)
EXTENDS Integers, Sequences, FiniteSets, TLC

\* ------------------------------------------------------------------ bounds
\* Largest number of datagrams the receive loop is given in one run.
MaxObs == 3

\* The flush cadence of the datagram tracker: request_id % 10 == 9.
FlushEvery == 10

\* uint64_t differences wrap modulo 2^64; the model keeps the wrap at a
\* scaled-down modulus that is larger than every clock value.
Wrap64 == 2 ^ 5

\* Clock values: system_clock::now() of the sender and of the receiver. The
\* two clocks are unrelated and neither is monotonic.
Times == 1..2

\* struct Packet as read off the wire (data_size and data are only printed).
\* The traffic a run of the datagram tracker is given is one of:
\*   FragmentTraffic - fragments of request 0 of a session of two requests,
\*     each declaring 3 fragments, with any index 0..3 (index 3 is
\*     malformed), in any order and number, sent and received at any time;
\*   SessionTraffic - well-formed fragments of requests 0, 1 and 9 (the
\*     first id that triggers the periodic flush) of sessions of 1 or 2
\*     requests, declaring 1 or 2 fragments, all sent and received at time 1.
FragmentTraffic ==
    [timestamp : Times, packet_id : 0..3, total_packets : {3},
     request_id : {0}, total_requests : {2}]

SessionTraffic ==
    {p \in [timestamp : {1}, packet_id : {0, 1}, total_packets : {1, 2},
            request_id : {0, 1, FlushEvery - 1}, total_requests : {1, 2}] :
        p.packet_id < p.total_packets}

\* the session traffic of single-fragment requests, for the runs in which
\* the shutdown is followed to its end
ShutdownTraffic == {p \in SessionTraffic : p.total_packets = 1}

\* the session traffic an emitter can have sent: request_id below
\* total_requests (the emitter's main numbers its requests 0..num_requests-1)
DeliveryTraffic == {p \in SessionTraffic : p.request_id < p.total_requests}

Packets == FragmentTraffic \cup SessionTraffic

\* uint32_t has 2^32 values and int the 2^31 non-negative ones among them;
\* the model keeps the width of the header's data_size at a scaled-down 3
\* bits.
Wrap32 == 2 ^ 3

\* line 171: int remaining = header.data_size, the conversion of a uint32_t
ToInt(u) == IF u >= Wrap32 \div 2 THEN u - Wrap32 ELSE u

\* struct RequestHeader as read off the stream. The traffic a run of the
\* stream tracker is given is one of:
\*   TimingHeaders - request 0 of a session of two requests, declaring a
\*     payload of 0 or 2 bytes or one that does not fit an int, sent and
\*     received at any time;
\*   SessionHeaders - requests 0 and 1 of sessions of 1 or 2 requests, with
\*     a payload of 2 bytes, all sent and received at time 1.
TimingHeaders ==
    [timestamp : Times, request_id : {0}, total_requests : {2},
     data_size : {0, 2, Wrap32 - 2}]

SessionHeaders ==
    [timestamp : {1}, request_id : {0, 1}, total_requests : {1, 2},
     data_size : {2}]

Headers == TimingHeaders \cup SessionHeaders

\* the receive clock readings of a run
RecvTimes(w) ==
    IF w \in {SessionTraffic, ShutdownTraffic, DeliveryTraffic, SessionHeaders}
    THEN {1}
    ELSE Times

NoHeader ==
    [timestamp |-> 0, request_id |-> 0, total_requests |-> 0, data_size |-> 0]

NoPacket ==
    [timestamp |-> 0, packet_id |-> 0, total_packets |-> 0,
     request_id |-> 0, total_requests |-> 0]

VARIABLES
    prog,               \* which program is running: "udp" | "tcp" |
                        \* "udp_server" | "aws_server" | "aws_listener"
    wire,               \* the datagrams / headers the peers may send in this run
    pc,                 \* position of main
    running,            \* global bool running
    requests,           \* global std::map<int, RequestStats>
    outfile,            \* rows of the output file as last written
    opened,             \* outfile.is_open() of the last write_results call
    announced,          \* the session-complete message has been printed
    packet,             \* udp: Packet packet
    recv_time,          \* udp: recv_time of the last received packet
    highest_request_id, \* udp
    total_requests,     \* udp
    header,             \* tcp: RequestHeader header
    header_recv_time,   \* tcp
    remaining,          \* tcp: bytes of the payload still to receive
    total_received,     \* tcp: bytes of the payload received
    total_requests_received, \* tcp
    expected_total_requests, \* tcp
    start_time,         \* tcp
    end_time,           \* tcp
    log,                \* history: the (packet or header, receive time) pairs
    recv_failed,        \* history, udp: a recvfrom has returned < 0
    console,            \* history, udp: the completion messages printed
    bytes_to_send,      \* emitter: argv[3]
    num_requests,       \* emitter: argv[4]
    request_i,          \* emitter: i, the request counter of main's for loop
    total_packets,      \* emitter: send_request's total_packets
    packets,            \* emitter: send_request's std::vector<Packet> packets
    packet_i,           \* emitter: i, the counter of send_request's send loop
    bytes_per_request,  \* trigger emitter: the payload size the phone asked for
    requests_sent,      \* trigger emitter: send_data_to_phone's requests_sent
    trigger_buffer,     \* trigger emitter: char trigger_buffer[4]
    trace,              \* history: what the emitter did to the clock, the
                        \* socket and the console, in order
    handlers            \* trigger emitter: the state of the thread of each
                        \* phone connection accepted by the listener

udpvars == <<packet, recv_time, highest_request_id, total_requests>>

tcpvars ==
    <<header, header_recv_time, remaining, total_received,
      total_requests_received, expected_total_requests, start_time, end_time>>

\* the emitters' variables, which the trackers leave alone
emitvars ==
    <<bytes_to_send, num_requests, request_i, total_packets, packets,
      packet_i, bytes_per_request, requests_sent, trigger_buffer, trace,
      handlers>>

\* the trigger emitter's own variables
phonevars == <<bytes_per_request, requests_sent, trigger_buffer>>

\* the datagram emitter's own variables
udpservervars ==
    <<bytes_to_send, request_i, total_packets, packets, packet_i>>

\* the trackers' variables, which the emitters leave alone
trackvars ==
    <<wire, requests, outfile, opened, announced, udpvars, tcpvars, log,
      recv_failed, console>>

vars ==
    <<prog, wire, pc, running, requests, outfile, opened, announced, udpvars,
      tcpvars, log, recv_failed, console, emitvars>>

\* ------------------------------------------------------------ arithmetic
Max(a, b) == IF a >= b THEN a ELSE b

MinOf(S) == CHOOSE x \in S : \A y \in S : x <= y

\* a - b on uint64_t
Sub64(a, b) == (a - b + Wrap64) % Wrap64

\* ------------------------------------------------- datagram tracker: data
RequestStats ==
    [first_packet_send_time |-> 0, first_packet_recv_time |-> 0,
     last_packet_recv_time |-> 0, is_complete |-> FALSE,
     received_packets |-> {}]

\* requests.find(request_id) == requests.end() -> requests[request_id] = RequestStats()
FindOrCreate(reqs, rid) ==
    IF rid \in DOMAIN reqs THEN reqs
    ELSE [k \in DOMAIN reqs \cup {rid} |-> IF k = rid THEN RequestStats ELSE reqs[k]]

\* Faulty variant of MarkReceived: the map of indices is replaced, not
\* added to.
MarkReceivedReplaces(stats, p) ==
    [stats EXCEPT !.received_packets = {p.packet_id}]

\* requests[request_id].received_packets[packet_id] = true
MarkReceived(stats, p) ==
    [stats EXCEPT !.received_packets = @ \cup {p.packet_id}]

\* Faulty variant of FirstPacketTimes: the packet_id == 0 test is missing.
FirstPacketTimesUnguarded(stats, p, t) ==
    [stats EXCEPT !.first_packet_send_time = p.timestamp,
                  !.first_packet_recv_time = t]

\* if (packet_id == 0) { first_packet_send_time = ...; first_packet_recv_time = ...; }
FirstPacketTimes(stats, p, t) ==
    IF p.packet_id = 0
    THEN [stats EXCEPT !.first_packet_send_time = p.timestamp,
                       !.first_packet_recv_time = t]
    ELSE stats

\* Faulty variant of LastPacketTime: only the first arrival is recorded.
LastPacketTimeKeepsFirst(stats, t) ==
    IF stats.last_packet_recv_time = 0
    THEN [stats EXCEPT !.last_packet_recv_time = t]
    ELSE stats

\* requests[request_id].last_packet_recv_time = recv_time
LastPacketTime(stats, t) ==
    [stats EXCEPT !.last_packet_recv_time = t]

\* Faulty variant of CheckComplete: the comparison is one short.
CheckCompleteOneShort(stats, p) ==
    IF Cardinality(stats.received_packets) = p.total_packets - 1
    THEN [stats EXCEPT !.is_complete = TRUE]
    ELSE stats

\* if (received_packets.size() == total_packets) is_complete = true
CheckComplete(stats, p) ==
    IF Cardinality(stats.received_packets) = p.total_packets
    THEN [stats EXCEPT !.is_complete = TRUE]
    ELSE stats

\* lines 191-195: the message printed inside the completeness test, for the
\* record as it is after the packet
RequestMessage(stats, p) ==
    IF Cardinality(stats.received_packets) = p.total_packets
    THEN <<[said |-> "Request completed", id |-> p.request_id]>>
    ELSE <<>>

\* lines 206-209: the message printed when all_complete is true
SessionMessage(done, tr) ==
    IF done THEN <<[said |-> "All requests completed", id |-> tr]>>
    ELSE <<>>

\* lines 174-195: the RequestStats of packet p's request after the packet
ObserveStats(stats, p, t) ==
    CheckComplete(LastPacketTime(FirstPacketTimes(MarkReceived(stats, p), p, t), t), p)

ObserveRequests(reqs, p, t) ==
    LET r == FindOrCreate(reqs, p.request_id)
    IN  [r EXCEPT ![p.request_id] = ObserveStats(@, p, t)]

\* Faulty variant of UpdateTotalRequests: the last packet's value wins.
UpdateTotalRequestsLastWins(tr, p) == p.total_requests

\* if (total_requests == 0 || packet.total_requests > total_requests)
UpdateTotalRequests(tr, p) ==
    IF tr = 0 \/ p.total_requests > tr THEN p.total_requests ELSE tr

\* Faulty variant of UpdateHighest: the last request_id seen, not the largest.
UpdateHighestLastSeen(h, p) == p.request_id

\* if (request_id > highest_request_id)
UpdateHighest(h, p) ==
    IF p.request_id > h THEN p.request_id ELSE h

\* Faulty variant of AllComplete: the loop stops one request early.
AllCompleteSkipsLast(reqs, tr) ==
    \A i \in 0..(tr - 2) : i \in DOMAIN reqs /\ reqs[i].is_complete

\* the for loop of lines 199-205
AllComplete(reqs, tr) ==
    \A i \in 0..(tr - 1) : i \in DOMAIN reqs /\ reqs[i].is_complete

\* Faulty variant of SessionDone: the last request is not waited for.
SessionDoneWithoutLast(reqs, tr, h) ==
    tr > 0 /\ AllCompleteSkipsLast(reqs, tr)

\* lines 198-211: the condition under which running is cleared
SessionDone(reqs, tr, h) ==
    tr > 0 /\ h = tr - 1 /\ AllComplete(reqs, tr)

\* ------------------------------------------------------- write_results
\* Faulty variant of UdpRow: the spread is taken from the send time.
UdpRowFromSend(rid, stats) ==
    [request_id |-> rid,
     first_packet_latency |->
        Sub64(stats.first_packet_recv_time, stats.first_packet_send_time),
     last_to_first_diff |->
        Sub64(stats.last_packet_recv_time, stats.first_packet_send_time)]

UdpRow(rid, stats) ==
    [request_id |-> rid,
     first_packet_latency |->
        Sub64(stats.first_packet_recv_time, stats.first_packet_send_time),
     last_to_first_diff |->
        Sub64(stats.last_packet_recv_time, stats.first_packet_recv_time)]

\* std::map iterates in ascending key order
RECURSIVE UdpRows(_, _)
UdpRows(reqs, keys) ==
    IF keys = {} THEN <<>>
    ELSE LET k == MinOf(keys)
         IN  <<UdpRow(k, reqs[k])>> \o UdpRows(reqs, keys \ {k})

\* Faulty variant of UdpWriteResults: the map is cleared once written.
UdpWriteResultsClearing(reqs) ==
    [rows |-> UdpRows(reqs, DOMAIN reqs), requests |-> <<>>]

\* udp write_results after a successful open: the rows written, and the
\* requests map as the function leaves it (it iterates by const reference)
UdpWriteResults(reqs) ==
    [rows |-> UdpRows(reqs, DOMAIN reqs), requests |-> reqs]

\* ----------------------------------------------------------------- Init
\* the trackers' variables before the first receive
TrackerStart ==
    /\ requests = <<>>
    /\ outfile = <<>>
    /\ opened = FALSE
    /\ announced = FALSE
    /\ packet = NoPacket
    /\ recv_time = 0
    /\ highest_request_id = 0
    /\ total_requests = 0
    /\ header = NoHeader
    /\ header_recv_time = 0
    /\ remaining = 0
    /\ total_received = 0
    /\ total_requests_received = 0
    /\ expected_total_requests = 0
    /\ start_time = 0
    /\ end_time = 0
    /\ log = <<>>
    /\ recv_failed = FALSE
    /\ console = <<>>

\* the trackers' variables in a run of an emitter
TrackerIdle == wire = {} /\ TrackerStart

\* the emitters' variables in a run of a tracker
EmitterIdle ==
    /\ bytes_to_send = 0
    /\ num_requests = 0
    /\ request_i = 0
    /\ total_packets = 0
    /\ packets = <<>>
    /\ packet_i = 0
    /\ bytes_per_request = 0
    /\ requests_sent = 0
    /\ trigger_buffer = <<>>
    /\ trace = <<>>
    /\ handlers = <<>>

Init ==
    /\ \/ prog = "udp" /\ wire \in {FragmentTraffic, SessionTraffic}
       \/ prog = "tcp" /\ wire \in {TimingHeaders, SessionHeaders}
    /\ pc = "loop"
    /\ running = TRUE
    /\ requests = <<>>
    /\ outfile = <<>>
    /\ opened = FALSE
    /\ announced = FALSE
    /\ packet = NoPacket
    /\ recv_time = 0
    /\ highest_request_id = 0
    /\ total_requests = 0
    /\ header = NoHeader
    /\ header_recv_time = 0
    /\ remaining = 0
    /\ total_received = 0
    /\ total_requests_received = 0
    /\ expected_total_requests = 0
    /\ start_time = 0
    /\ end_time = 0
    /\ log = <<>>
    /\ recv_failed = FALSE
    /\ console = <<>>
    /\ EmitterIdle

\* ---------------------------------------------------- datagram tracker
\* Faulty variant of Signal: the handler also empties the requests map.
SignalClearsRequests ==
    /\ pc # "done"
    /\ running
    /\ running' = FALSE
    /\ requests' = <<>>
    /\ UNCHANGED <<emitvars, console, recv_failed, prog, wire, pc, outfile,
                   opened, announced, udpvars, tcpvars, log>>

\* signal_handler: running = false, at any point before main returns
Signal ==
    /\ pc # "done"
    /\ running
    /\ running' = FALSE
    /\ UNCHANGED <<emitvars, console, recv_failed, prog, wire, pc, requests,
                   outfile, opened, announced, udpvars, tcpvars, log>>

\* the loop test with the flag not read: while (true)
UdpLoopIgnoresFlag ==
    /\ prog = "udp"
    /\ pc = "loop"
    /\ pc' = "recv"
    /\ UNCHANGED <<emitvars, console, recv_failed, prog, wire, running,
                   requests, outfile, opened, announced, udpvars, tcpvars,
                   log>>

\* while (running): the loop test
UdpLoop ==
    /\ prog = "udp"
    /\ pc = "loop"
    /\ pc' = IF running THEN "recv" ELSE "exit"
    /\ UNCHANGED <<emitvars, console, recv_failed, prog, wire, running,
                   requests, outfile, opened, announced, udpvars, tcpvars,
                   log>>

\* a failed recvfrom ending the session: running = false
UdpRecvFailStops ==
    /\ prog = "udp"
    /\ pc = "recv"
    /\ pc' = "loop"
    /\ recv_failed' = TRUE
    /\ running' = FALSE
    /\ UNCHANGED <<emitvars, console, prog, wire, requests, outfile, opened,
                   announced, udpvars, tcpvars, log>>

\* recvfrom returned < 0 (timeout or error): continue
UdpRecvFail ==
    /\ prog = "udp"
    /\ pc = "recv"
    /\ pc' = "loop"
    /\ recv_failed' = TRUE
    /\ UNCHANGED <<emitvars, console, prog, wire, running, requests, outfile,
                   opened, announced, udpvars, tcpvars, log>>

\* recvfrom returned a datagram: lines 148-211
UdpObserve ==
    /\ prog = "udp"
    /\ pc = "recv"
    /\ Len(log) < MaxObs
    /\ \E p \in wire, t \in RecvTimes(wire) :
        LET tr == UpdateTotalRequests(total_requests, p)
            h == UpdateHighest(highest_request_id, p)
            reqs == ObserveRequests(requests, p, t)
            done == SessionDone(reqs, tr, h)
        IN  /\ packet' = p
            /\ recv_time' = t
            /\ total_requests' = tr
            /\ highest_request_id' = h
            /\ requests' = reqs
            /\ running' = IF done THEN FALSE ELSE running
            /\ announced' = (announced \/ done)
            /\ log' = Append(log, [p |-> p, t |-> t])
            /\ console' = console \o RequestMessage(reqs[p.request_id], p)
                                  \o SessionMessage(done, tr)
    /\ pc' = "flush"
    /\ UNCHANGED <<emitvars, recv_failed, prog, wire, outfile, opened,
                   tcpvars>>

\* lines 213-216: if (request_id % 10 == 9) write_results();
UdpFlush ==
    /\ prog = "udp"
    /\ pc = "flush"
    /\ pc' = "loop"
    /\ IF packet.request_id % FlushEvery = FlushEvery - 1
       THEN \E ok \in BOOLEAN :
                /\ opened' = ok
                /\ outfile' = IF ok THEN UdpWriteResults(requests).rows
                              ELSE outfile
                /\ requests' = IF ok THEN UdpWriteResults(requests).requests
                               ELSE requests
       ELSE UNCHANGED <<outfile, opened, requests>>
    /\ UNCHANGED <<emitvars, console, recv_failed, prog, wire, running,
                   announced, udpvars, tcpvars, log>>

\* lines 219-224: close(sockfd); write_results(); return 0;
UdpFinal ==
    /\ prog = "udp"
    /\ pc = "exit"
    /\ pc' = "done"
    /\ \E ok \in BOOLEAN :
        /\ opened' = ok
        /\ outfile' = IF ok THEN UdpWriteResults(requests).rows ELSE outfile
        /\ requests' = IF ok THEN UdpWriteResults(requests).requests
                       ELSE requests
    /\ UNCHANGED <<emitvars, console, recv_failed, prog, wire, running,
                   announced, udpvars, tcpvars, log>>

\* ------------------------------------------------------ stream tracker
\* lines 218-222: requests[request_id] after the four assignments
TcpStoreRequest(reqs, h, hrt, dct) ==
    [k \in DOMAIN reqs \cup {h.request_id} |->
        IF k = h.request_id
        THEN [send_time |-> h.timestamp, header_recv_time |-> hrt,
              data_complete_time |-> dct, is_complete |-> TRUE]
        ELSE reqs[k]]

\* lines 226-227: the condition under which running is cleared
TcpSessionDone(expected, received) ==
    expected > 0 /\ received >= expected

TcpRow(rid, stats) ==
    [request_id |-> rid,
     transmission_delay |-> Sub64(stats.header_recv_time, stats.send_time),
     data_reception_duration |->
        Sub64(stats.data_complete_time, stats.header_recv_time)]

\* lines 57-70: one row per entry with is_complete, in ascending key order
RECURSIVE TcpRows(_, _)
TcpRows(reqs, keys) ==
    IF keys = {} THEN <<>>
    ELSE LET k == MinOf(keys)
             rest == TcpRows(reqs, keys \ {k})
         IN  IF reqs[k].is_complete THEN <<TcpRow(k, reqs[k])>> \o rest
             ELSE rest

\* tcp write_results after a successful open
TcpWriteResults(reqs) ==
    [rows |-> TcpRows(reqs, DOMAIN reqs), requests |-> reqs]

\* while (running): the outer loop test
TcpLoop ==
    /\ prog = "tcp"
    /\ pc = "loop"
    /\ pc' = IF running THEN "accept" ELSE "exit"
    /\ UNCHANGED <<emitvars, console, recv_failed, prog, wire, running,
                   requests, outfile, opened, announced, udpvars, tcpvars,
                   log>>

\* accept returned a connection
TcpAccept ==
    /\ prog = "tcp"
    /\ pc = "accept"
    /\ pc' = "inner"
    /\ UNCHANGED <<emitvars, console, recv_failed, prog, wire, running,
                   requests, outfile, opened, announced, udpvars, tcpvars,
                   log>>

\* accept failed: continue
TcpAcceptFail ==
    /\ prog = "tcp"
    /\ pc = "accept"
    /\ pc' = "loop"
    /\ UNCHANGED <<emitvars, console, recv_failed, prog, wire, running,
                   requests, outfile, opened, announced, udpvars, tcpvars,
                   log>>

\* while (running): the inner loop test
TcpInner ==
    /\ prog = "tcp"
    /\ pc = "inner"
    /\ pc' = IF running THEN "header" ELSE "close"
    /\ UNCHANGED <<emitvars, console, recv_failed, prog, wire, running,
                   requests, outfile, opened, announced, udpvars, tcpvars,
                   log>>

\* recv of the header returned <= 0: break
TcpHeaderFail ==
    /\ prog = "tcp"
    /\ pc = "header"
    /\ pc' = "close"
    /\ UNCHANGED <<emitvars, console, recv_failed, prog, wire, running,
                   requests, outfile, opened, announced, udpvars, tcpvars,
                   log>>

\* recv of the header returned a header: lines 164-172
TcpRecvHeader ==
    /\ prog = "tcp"
    /\ pc = "header"
    /\ Len(log) < MaxObs
    /\ \E h \in wire, t \in RecvTimes(wire) :
        /\ header' = h
        /\ header_recv_time' = t
        /\ remaining' = ToInt(h.data_size)
        /\ log' = Append(log, [p |-> h, t |-> t])
    /\ total_received' = 0
    /\ pc' = "data"
    /\ UNCHANGED <<emitvars, console, recv_failed, prog, wire, running,
                   requests, outfile, opened, announced, udpvars,
                   total_requests_received, expected_total_requests,
                   start_time, end_time>>

\* one recv of the payload loop returned bytes: lines 175, 185-186
TcpRecvData ==
    /\ prog = "tcp"
    /\ pc = "data"
    /\ remaining > 0
    /\ \E n \in 1..remaining :
        /\ total_received' = total_received + n
        /\ remaining' = remaining - n
    /\ UNCHANGED <<emitvars, console, recv_failed, prog, wire, pc, running,
                   requests, outfile, opened, announced, udpvars, header,
                   header_recv_time, total_requests_received,
                   expected_total_requests, start_time, end_time, log>>

\* a failed recv of the payload loop recording the request all the same
TcpDataFailRecordsPartial ==
    /\ prog = "tcp"
    /\ pc = "data"
    /\ remaining > 0
    /\ pc' = "close"
    /\ requests' = TcpStoreRequest(requests, header, header_recv_time,
                                   header_recv_time)
    /\ UNCHANGED <<emitvars, console, recv_failed, prog, wire, running, outfile,
                   opened, announced, udpvars, tcpvars, log>>

\* one recv of the payload loop returned <= 0: lines 176-183, 194-198
TcpDataFail ==
    /\ prog = "tcp"
    /\ pc = "data"
    /\ remaining > 0
    /\ pc' = "close"
    /\ UNCHANGED <<emitvars, console, recv_failed, prog, wire, running,
                   requests, outfile, opened, announced, udpvars, tcpvars,
                   log>>

\* the payload loop is over with remaining > 0 false: lines 189-232
TcpStore ==
    /\ prog = "tcp"
    /\ pc = "data"
    /\ ~(remaining > 0)
    /\ \E data_complete_time \in RecvTimes(wire) :
        LET first == total_requests_received = 0
            expected == IF first THEN header.total_requests
                        ELSE expected_total_requests
            received == total_requests_received + 1
            done == TcpSessionDone(expected, received)
        IN  /\ start_time' = IF first THEN header_recv_time ELSE start_time
            /\ expected_total_requests' = expected
            /\ end_time' = data_complete_time
            /\ requests' = TcpStoreRequest(requests, header, header_recv_time,
                                           data_complete_time)
            /\ total_requests_received' = received
            /\ running' = IF done THEN FALSE ELSE running
            /\ announced' = (announced \/ done)
            /\ pc' = IF done THEN "close" ELSE "inner"
    /\ UNCHANGED <<emitvars, console, recv_failed, prog, wire, outfile, opened,
                   udpvars, header, header_recv_time, remaining,
                   total_received, log>>

\* close(client_sockfd)
TcpClose ==
    /\ prog = "tcp"
    /\ pc = "close"
    /\ pc' = "loop"
    /\ UNCHANGED <<emitvars, console, recv_failed, prog, wire, running,
                   requests, outfile, opened, announced, udpvars, tcpvars,
                   log>>

\* lines 238-243: close(server_sockfd); write_results(); return 0;
TcpFinal ==
    /\ prog = "tcp"
    /\ pc = "exit"
    /\ pc' = "done"
    /\ \E ok \in BOOLEAN :
        /\ opened' = ok
        /\ outfile' = IF ok THEN TcpWriteResults(requests).rows ELSE outfile
        /\ requests' = IF ok THEN TcpWriteResults(requests).requests
                       ELSE requests
    /\ UNCHANGED <<emitvars, console, recv_failed, prog, wire, running,
                   announced, udpvars, tcpvars, log>>

Next ==
    \/ Signal
    \/ UdpLoop
    \/ UdpRecvFail
    \/ UdpObserve
    \/ UdpFlush
    \/ UdpFinal
    \/ TcpLoop
    \/ TcpAccept
    \/ TcpAcceptFail
    \/ TcpInner
    \/ TcpHeaderFail
    \/ TcpRecvHeader
    \/ TcpRecvData
    \/ TcpDataFail
    \/ TcpStore
    \/ TcpClose
    \/ TcpFinal

Spec == Init /\ [][Next]_vars

\* ------------------------------------------------------------- progress
\* The steps the trackers take without waiting for a peer happen: the loop
\* tests, the flush, the store, the close and the final write. The datagram
\* tracker's recvfrom returns, with a datagram or without, within the
\* 500 ms of SO_RCVTIMEO. The stream tracker's accept and recv have no
\* timeout, and signal() installs the handler with SA_RESTART: they return
\* when the peer connects, sends or closes, which nothing guarantees.
Progress ==
    /\ WF_vars(UdpLoop)
    /\ WF_vars(UdpRecvFail \/ UdpObserve)
    /\ WF_vars(UdpFlush)
    /\ WF_vars(UdpFinal)
    /\ WF_vars(TcpLoop)
    /\ WF_vars(TcpInner)
    /\ WF_vars(TcpStore)
    /\ WF_vars(TcpClose)
    /\ WF_vars(TcpFinal)

\* the runs of the trackers in which the shutdown is followed to its end
LiveInit ==
    /\ \/ prog = "udp" /\ wire = ShutdownTraffic
       \/ prog = "tcp" /\ wire = SessionHeaders
    /\ pc = "loop"
    /\ running = TRUE
    /\ TrackerStart
    /\ EmitterIdle

LiveSpec == LiveInit /\ [][Next]_vars /\ Progress

\* the runs of the datagram tracker that no signal interrupts, on the
\* traffic of an emitter, followed to their end
DeliveryInit ==
    /\ prog = "udp"
    /\ wire = DeliveryTraffic
    /\ pc = "loop"
    /\ running = TRUE
    /\ TrackerStart
    /\ EmitterIdle

DeliveryNext ==
    \/ UdpLoop
    \/ UdpRecvFail
    \/ UdpObserve
    \/ UdpFlush
    \/ UdpFinal

DeliverySpec == DeliveryInit /\ [][DeliveryNext]_vars /\ Progress

\* ===================================================== datagram emitter
\* testbed-5G-latency/dl-latency-udp/server.cpp, run as prog = "udp_server".

\* #define MAX_PACKET_SIZE 1400
MAX_PACKET_SIZE == 1400

\* Largest num_requests a run of an emitter is given.
MaxRequests == 2

\* int is 32 bits wide in the source; the model keeps its width at a
\* scaled-down 14 bits, wide enough for the payloads of up to three
\* fragments. IntMax + MAX_PACKET_SIZE - 1 overflows exactly as
\* INT_MAX + 1399 does.
IntMax == 2 ^ 13 - 1

IntWrap == 2 * (IntMax + 1)

\* bytes_to_send of a run: the sizes around one and two full fragments, the
\* 3000 bytes of three fragments, and the largest int.
Payloads ==
    {0, 1, MAX_PACKET_SIZE, MAX_PACKET_SIZE + 1, 2 * MAX_PACKET_SIZE, 3000,
     IntMax}

\* system_clock::now() of the sender, which is not monotonic
EmitTimes == 1..2

\* int division truncates toward zero
TruncDiv(a, b) == IF a >= 0 THEN a \div b ELSE -((-a) \div b)

\* line 28: (bytes_to_send + MAX_PACKET_SIZE - 1) / MAX_PACKET_SIZE in int.
\* The sum overflows for bytes_to_send > INT_MAX - 1399, which is undefined:
\* the build either wraps the sum (a negative count) or traps; a trap ends
\* the process where the negative count does, at line 31.
TotalPackets(B) ==
    IF B + MAX_PACKET_SIZE - 1 <= IntMax
    THEN {TruncDiv(B + MAX_PACKET_SIZE - 1, MAX_PACKET_SIZE)}
    ELSE {TruncDiv(B + MAX_PACKET_SIZE - 1 - IntWrap, MAX_PACKET_SIZE)}

\* lines 31-48 with line 35 numbering the packets 0, 2, 3, ...
PreparePacketsSkipsIndex(k, n, bytes_remaining, rid, tr) ==
    [j \in 1..(n - k) |->
        [timestamp |-> 0, packet_id |-> IF j = 1 THEN k ELSE k + j,
         total_packets |-> n, request_id |-> rid, total_requests |-> tr,
         data_size |->
            IF bytes_remaining - MAX_PACKET_SIZE * (j - 1) > MAX_PACKET_SIZE
            THEN MAX_PACKET_SIZE
            ELSE bytes_remaining - MAX_PACKET_SIZE * (j - 1)]]

\* lines 31-48 from packet k on: the vector is value-initialised (timestamp
\* 0) and each packet takes min(bytes_remaining, MAX_PACKET_SIZE) bytes
RECURSIVE PreparePackets(_, _, _, _, _)
PreparePackets(k, n, bytes_remaining, rid, tr) ==
    IF k >= n THEN <<>>
    ELSE LET size == IF bytes_remaining > MAX_PACKET_SIZE
                     THEN MAX_PACKET_SIZE ELSE bytes_remaining
         IN  <<[timestamp |-> 0, packet_id |-> k, total_packets |-> n,
                request_id |-> rid, total_requests |-> tr,
                data_size |-> size]>>
             \o PreparePackets(k + 1, n, bytes_remaining - size, rid, tr)

\* lines 53-55 moved out of the send loop: one timestamp for the request
SendTimestampOncePerRequest(pkts, k, now) ==
    IF k = 1 THEN now ELSE pkts[1].timestamp

\* lines 53-55: the timestamp packet k is sent with, now being the clock
\* at its iteration of the send loop
SendTimestamp(pkts, k, now) == now

\* main, lines 68-103: the arguments are parsed and the socket is made
UdpServerInit ==
    /\ prog = "udp_server"
    /\ pc = "for"
    /\ running = TRUE
    /\ TrackerIdle
    /\ bytes_to_send \in Payloads
    /\ num_requests \in 0..MaxRequests
    /\ request_i = 0
    /\ total_packets = 0
    /\ packets = <<>>
    /\ packet_i = 0
    /\ bytes_per_request = 0
    /\ requests_sent = 0
    /\ trigger_buffer = <<>>
    /\ trace = <<>>
    /\ handlers = <<>>

\* line 105: for (i < num_requests); lines 115-117 when the loop is over
EmitFor ==
    /\ prog = "udp_server"
    /\ pc = "for"
    /\ IF request_i < num_requests
       THEN /\ pc' = "prepare"
            /\ UNCHANGED trace
       ELSE /\ pc' = "done"
            /\ trace' = Append(trace,
                    [op |-> "exit", status |-> 0,
                     said |-> "All requests sent successfully"])
    /\ UNCHANGED <<prog, running, trackvars, handlers, phonevars, bytes_to_send,
                   num_requests, request_i, total_packets, packets, packet_i>>

\* send_request, lines 28-48: a negative count makes the vector's
\* constructor throw, which nothing catches
EmitPrepare ==
    /\ prog = "udp_server"
    /\ pc = "prepare"
    /\ \E n \in TotalPackets(bytes_to_send) :
        /\ total_packets' = n
        /\ IF n < 0
           THEN /\ pc' = "aborted"
                /\ UNCHANGED packets
           ELSE /\ pc' = "send"
                /\ packets' = PreparePackets(0, n, bytes_to_send, request_i,
                                             num_requests)
    /\ packet_i' = 0
    /\ UNCHANGED <<prog, running, trackvars, handlers, phonevars, bytes_to_send,
                   num_requests, request_i, trace>>

\* send_request, lines 51-65: one iteration of the send loop; the value
\* sendto returns is dropped
EmitSend ==
    /\ prog = "udp_server"
    /\ pc = "send"
    /\ packet_i < total_packets
    /\ \E now \in EmitTimes, ok \in BOOLEAN :
        LET k == packet_i + 1
            stamped == [packets EXCEPT
                            ![k].timestamp = SendTimestamp(packets, k, now)]
        IN  /\ packets' = stamped
            /\ trace' = trace \o <<[op |-> "now", t |-> now],
                                   [op |-> "sendto", packet |-> stamped[k],
                                    ok |-> ok]>>
    /\ packet_i' = packet_i + 1
    /\ UNCHANGED <<prog, pc, running, trackvars, handlers, phonevars,
                   bytes_to_send, num_requests, request_i, total_packets>>

\* send_request returns (it is void); main, lines 109-113: sleep, i++
EmitReturn ==
    /\ prog = "udp_server"
    /\ pc = "send"
    /\ packet_i >= total_packets
    /\ request_i' = request_i + 1
    /\ pc' = "for"
    /\ UNCHANGED <<prog, running, trackvars, handlers, phonevars, bytes_to_send,
                   num_requests, total_packets, packets, packet_i, trace>>

UdpServerNext ==
    \/ EmitFor
    \/ EmitPrepare
    \/ EmitSend
    \/ EmitReturn

UdpServerSpec == UdpServerInit /\ [][UdpServerNext]_vars

\* ====================================================== trigger emitter
\* commerical-5G-latency-decompose/multiple-packet-dl-decompose/
\* aws_server.cpp: one phone connection, from the call of
\* send_data_to_phone on; run as prog = "aws_server".

\* Largest number of successful recv calls on the connection in one run.
MaxTriggers == 3

\* the trigger token
TRIG == <<"T", "R", "I", "G">>

\* what one recv of up to 4 bytes may deliver: the token, two other 4-byte
\* values, and the first half of a token cut by a short read
Words == {TRIG, <<"T", "R", "I", "X">>, <<"P", "I", "N", "G">>, <<"T", "R">>}

\* bytes_per_request of a run
PayloadSizes == {-1, 0, 2}

\* what send may do: return the length, return -1, or raise SIGPIPE,
\* which nothing handles, on a connection the peer has reset
SendOutcomes == {"sent", "failed", "sigpipe"}

\* char trigger_buffer[4] before the first recv: never read
NoTrigger == <<"?", "?", "?", "?">>

\* recv writes the bytes it got over the front of the buffer
Overlay(buf, w) == [k \in 1..4 |-> IF k <= Len(w) THEN w[k] ELSE buf[k]]

\* strncmp(a, b, 4) on buffers without a NUL: 0 iff the 4 bytes agree
Strncmp4(a, b) == IF \A k \in 1..4 : a[k] = b[k] THEN 0 ELSE 1

\* line 126 with every 4-byte value taken for the token
IsTriggerAnyFourBytes(bytes_received, buf) == bytes_received = 4

\* line 126 negated: the packet is a valid trigger
IsTrigger(bytes_received, buf) ==
    ~(bytes_received # 4 \/ Strncmp4(buf, TRIG) # 0)

\* the recv calls that returned bytes so far
Recvs == SelectSeq(trace, LAMBDA e : e.op = "recv" /\ e.n > 0)

\* handle_phone_client, lines 184-214: the parameters are in, ACK is sent
PhoneInit ==
    /\ prog = "aws_server"
    /\ pc = "while"
    /\ running = TRUE
    /\ TrackerIdle
    /\ bytes_to_send = 0
    /\ num_requests \in 0..MaxRequests
    /\ request_i = 0
    /\ total_packets = 0
    /\ packets = <<>>
    /\ packet_i = 0
    /\ bytes_per_request \in PayloadSizes
    /\ requests_sent = 0
    /\ trigger_buffer = NoTrigger
    /\ trace = <<>>
    /\ handlers = <<>>

\* signal_handler, lines 360-363: running = false
PhoneSignal ==
    /\ prog = "aws_server"
    /\ pc \notin {"closed", "killed"}
    /\ running
    /\ running' = FALSE
    /\ UNCHANGED <<prog, pc, trackvars, handlers, udpservervars, num_requests,
                   phonevars, trace>>

\* Faulty variant of PhoneWhile: the count is not tested, while (running).
PhoneWhileIgnoresCount ==
    /\ prog = "aws_server"
    /\ pc = "while"
    /\ pc' = IF running THEN "wait" ELSE "return"
    /\ UNCHANGED <<prog, running, trackvars, handlers, udpservervars,
                   num_requests, phonevars, trace>>

\* line 117: while (requests_sent < num_requests && running)
PhoneWhile ==
    /\ prog = "aws_server"
    /\ pc = "while"
    /\ pc' = IF requests_sent < num_requests /\ running THEN "wait"
             ELSE "return"
    /\ UNCHANGED <<prog, running, trackvars, handlers, udpservervars,
                   num_requests, phonevars, trace>>

\* lines 119-123: recv returned <= 0: break
PhoneRecvClosed ==
    /\ prog = "aws_server"
    /\ pc = "wait"
    /\ pc' = "return"
    /\ trace' = Append(trace, [op |-> "recv", n |-> 0, data |-> <<>>])
    /\ UNCHANGED <<prog, running, trackvars, handlers, udpservervars,
                   num_requests, phonevars>>

\* lines 119-158: recv returned bytes; an invalid packet is passed over,
\* a trigger is answered with the header and, for bytes_per_request > 0,
\* the payload, the values send returns being dropped (the outcome of a
\* send that is not made is pinned to "sent")
PhoneRecvTrigger ==
    /\ prog = "aws_server"
    /\ pc = "wait"
    /\ Len(Recvs) < MaxTriggers
    /\ \E w \in Words, hdr, pay \in SendOutcomes :
        LET buf == Overlay(trigger_buffer, w)
            got == [op |-> "recv", n |-> Len(w), data |-> w]
            header_sent == [op |-> "send", what |-> "header", outcome |-> hdr]
            payload_sent ==
                [op |-> "send", what |-> "payload", outcome |-> pay]
        IN  /\ trigger_buffer' = buf
            /\ IF ~IsTrigger(Len(w), buf)
               THEN /\ hdr = "sent" /\ pay = "sent"
                    /\ trace' = Append(trace, got)
                    /\ pc' = "while"
                    /\ UNCHANGED requests_sent
               ELSE IF hdr = "sigpipe"
               THEN /\ pay = "sent"
                    /\ trace' = trace \o <<got, header_sent>>
                    /\ pc' = "killed"
                    /\ UNCHANGED requests_sent
               ELSE IF bytes_per_request > 0 /\ pay = "sigpipe"
               THEN /\ trace' = trace \o <<got, header_sent, payload_sent>>
                    /\ pc' = "killed"
                    /\ UNCHANGED requests_sent
               ELSE /\ bytes_per_request > 0 \/ pay = "sent"
                    /\ trace' = trace \o <<got, header_sent>> \o
                            (IF bytes_per_request > 0 THEN <<payload_sent>>
                             ELSE <<>>)
                    /\ pc' = "while"
                    /\ requests_sent' = requests_sent + 1
    /\ UNCHANGED <<prog, running, trackvars, handlers, udpservervars,
                   num_requests, bytes_per_request>>

\* lines 160-161 and handle_phone_client, lines 220-222: close
PhoneReturn ==
    /\ prog = "aws_server"
    /\ pc = "return"
    /\ pc' = "closed"
    /\ trace' = Append(trace, [op |-> "close"])
    /\ UNCHANGED <<prog, running, trackvars, handlers, udpservervars,
                   num_requests, phonevars>>

PhoneNext ==
    \/ PhoneSignal
    \/ PhoneWhile
    \/ PhoneRecvClosed
    \/ PhoneRecvTrigger
    \/ PhoneReturn

PhoneSpec == PhoneInit /\ [][PhoneNext]_vars

\* the handler's own steps are taken when they can be; what the peer sends,
\* and when, stays free
PhoneProgress == WF_vars(PhoneWhile) /\ WF_vars(PhoneReturn)

PhoneLiveSpec == PhoneInit /\ [][PhoneNext]_vars /\ PhoneProgress

\* ------------------------------------------ trigger emitter: the listener
\* listen_for_phone_clients accepts connections and starts a detached
\* thread running handle_phone_client for each; the threads share the flag
\* running and, as threads of one process, the process itself.
\* pc is the position of the listener thread; handlers[h] holds the locals
\* of the thread of connection h

\* the connections the phones may open in a run
Phones == {1, 2}

\* the locals of the thread of a connection not accepted yet
NoHandler ==
    [pc |-> "none", num_requests |-> 0, bytes_per_request |-> 0,
     requests_sent |-> 0, trigger_buffer |-> NoTrigger, received |-> 0]

\* the number of recv calls that have returned bytes, over all connections
RECURSIVE TotalReceived(_, _)
TotalReceived(hs, S) ==
    IF S = {} THEN 0
    ELSE LET h == MinOf(S)
         IN  hs[h].received + TotalReceived(hs, S \ {h})

\* the process is terminated: every thread that has not returned stops
\* where it is
Terminated(hs) ==
    [h \in DOMAIN hs |->
        IF hs[h].pc \in {"none", "closed"} THEN hs[h]
        ELSE [hs[h] EXCEPT !.pc = "killed"]]

listenframe ==
    <<prog, trackvars, udpservervars, num_requests, phonevars, trace>>

ListenInit ==
    /\ prog = "aws_listener"
    /\ pc = "while"
    /\ running = TRUE
    /\ TrackerIdle
    /\ bytes_to_send = 0
    /\ num_requests = 0
    /\ request_i = 0
    /\ total_packets = 0
    /\ packets = <<>>
    /\ packet_i = 0
    /\ bytes_per_request = 0
    /\ requests_sent = 0
    /\ trigger_buffer = <<>>
    /\ trace = <<>>
    /\ handlers = [h \in Phones |-> NoHandler]

\* signal_handler, lines 360-363: running = false
ListenSignal ==
    /\ prog = "aws_listener"
    /\ pc \notin {"exited", "killed"}
    /\ running
    /\ running' = FALSE
    /\ UNCHANGED <<pc, handlers, listenframe>>

\* line 330: while (running); lines 355-356 when the loop is over
ListenWhile ==
    /\ prog = "aws_listener"
    /\ pc = "while"
    /\ pc' = IF running THEN "accept" ELSE "closed"
    /\ UNCHANGED <<running, handlers, listenframe>>

\* lines 334-341: accept failed: continue
ListenAcceptFail ==
    /\ prog = "aws_listener"
    /\ pc = "accept"
    /\ pc' = "while"
    /\ UNCHANGED <<running, handlers, listenframe>>

\* lines 334-348: accept returned a connection and its thread is started
ListenAccept(h) ==
    /\ prog = "aws_listener"
    /\ pc = "accept"
    /\ handlers[h].pc = "none"
    /\ handlers' = [handlers EXCEPT ![h].pc = "params"]
    /\ pc' = "while"
    /\ UNCHANGED <<running, listenframe>>

\* handle_phone_client, lines 184-214: the 12 parameter bytes are received
\* and ACK is sent, the value send returns being dropped; anything but 12
\* bytes closes the connection (lines 188-192)
HandlerParams(h) ==
    /\ prog = "aws_listener"
    /\ handlers[h].pc = "params"
    /\ \/ /\ handlers' = [handlers EXCEPT ![h].pc = "closed"]
          /\ UNCHANGED pc
       \/ \E n \in 0..MaxRequests, b \in PayloadSizes, ack \in SendOutcomes :
            LET started ==
                    [handlers EXCEPT ![h].pc = "while",
                                     ![h].num_requests = n,
                                     ![h].bytes_per_request = b]
            IN  IF ack = "sigpipe"
                THEN handlers' = Terminated(started) /\ pc' = "killed"
                ELSE handlers' = started /\ UNCHANGED pc
    /\ UNCHANGED <<running, listenframe>>

\* line 117: while (requests_sent < num_requests && running)
HandlerWhile(h) ==
    /\ prog = "aws_listener"
    /\ handlers[h].pc = "while"
    /\ handlers' =
        [handlers EXCEPT ![h].pc =
            IF handlers[h].requests_sent < handlers[h].num_requests
               /\ running
            THEN "wait" ELSE "return"]
    /\ UNCHANGED <<pc, running, listenframe>>

\* lines 119-123: recv returned <= 0: break
HandlerRecvClosed(h) ==
    /\ prog = "aws_listener"
    /\ handlers[h].pc = "wait"
    /\ handlers' = [handlers EXCEPT ![h].pc = "return"]
    /\ UNCHANGED <<pc, running, listenframe>>

\* lines 119-158: recv returned bytes; an invalid packet is passed over, a
\* trigger is answered with the header and, for bytes_per_request > 0, the
\* payload; a send that raises SIGPIPE, which the program leaves at its
\* default action, terminates the process
HandlerRecvTrigger(h) ==
    /\ prog = "aws_listener"
    /\ handlers[h].pc = "wait"
    /\ TotalReceived(handlers, Phones) < MaxTriggers
    /\ \E w \in Words, hdr, pay \in SendOutcomes :
        LET buf == Overlay(handlers[h].trigger_buffer, w)
            got == [handlers EXCEPT ![h].trigger_buffer = buf,
                                    ![h].received = @ + 1]
        IN  IF ~IsTrigger(Len(w), buf)
            THEN /\ hdr = "sent" /\ pay = "sent"
                 /\ handlers' = [got EXCEPT ![h].pc = "while"]
                 /\ UNCHANGED pc
            ELSE IF hdr = "sigpipe"
                    \/ (handlers[h].bytes_per_request > 0 /\ pay = "sigpipe")
            THEN /\ hdr = "sigpipe" => pay = "sent"
                 /\ handlers' = Terminated(got)
                 /\ pc' = "killed"
            ELSE /\ handlers[h].bytes_per_request > 0 \/ pay = "sent"
                 /\ handlers' = [got EXCEPT ![h].pc = "while",
                                            ![h].requests_sent = @ + 1]
                 /\ UNCHANGED pc
    /\ UNCHANGED <<running, listenframe>>

\* lines 160-161 and handle_phone_client, lines 220-222: close
HandlerReturn(h) ==
    /\ prog = "aws_listener"
    /\ handlers[h].pc = "return"
    /\ handlers' = [handlers EXCEPT ![h].pc = "closed"]
    /\ UNCHANGED <<pc, running, listenframe>>

\* main, lines 381-386: the listener threads are joined and main returns,
\* which ends the process and the detached threads with it
MainReturn ==
    /\ prog = "aws_listener"
    /\ pc = "closed"
    /\ pc' = "exited"
    /\ handlers' = Terminated(handlers)
    /\ UNCHANGED <<running, listenframe>>

ListenNext ==
    \/ ListenSignal
    \/ ListenWhile
    \/ ListenAcceptFail
    \/ \E h \in Phones : ListenAccept(h)
    \/ \E h \in Phones : HandlerParams(h)
    \/ \E h \in Phones : HandlerWhile(h)
    \/ \E h \in Phones : HandlerRecvClosed(h)
    \/ \E h \in Phones : HandlerRecvTrigger(h)
    \/ \E h \in Phones : HandlerReturn(h)
    \/ MainReturn

ListenSpec == ListenInit /\ [][ListenNext]_vars

\* ======================================================== properties
\* A step of the receive loop that processes a datagram (lines 148-211).
ObserveStep == prog = "udp" /\ pc = "recv" /\ pc' = "flush"

\* A step that runs write_results (lines 213-216 with a flush due, 222).
WriteStep ==
    \/ /\ pc = "flush" /\ pc' = "loop"
       /\ packet.request_id % FlushEvery = FlushEvery - 1
    \/ pc = "exit" /\ pc' = "done"

\* The session completion predicate of the data model.
SessionComplete(reqs, tr) ==
    tr > 0 /\ \A i \in 0..(tr - 1) : i \in DOMAIN reqs /\ reqs[i].is_complete

\* The session-complete message is printed in this step.
Declares == ~announced /\ announced'

\* C1 (as stated): an observe declares the session complete exactly when,
\* after it, total_requests > 0 and every request id below total_requests
\* has a record with is_complete true.
C1_DeclaredIffComplete ==
    [][ObserveStep =>
        (Declares <=> SessionComplete(requests', total_requests'))]_vars

\* C1 (amended): an observe declares the session complete exactly when,
\* after it, the completion predicate holds and highest_request_id equals
\* total_requests - 1; declaring clears running; and the session is never
\* declared complete while a request id below total_requests is missing or
\* incomplete.
C1_DeclaredIffCompleteAndHighest ==
    /\ [](prog = "udp" /\ announced =>
            ~running /\ SessionComplete(requests, total_requests))
    /\ [][ObserveStep =>
            /\ Declares <=>
                 /\ SessionComplete(requests', total_requests')
                 /\ highest_request_id' = total_requests' - 1
            /\ announced' => ~running']_vars

\* C1 witness: a session of two requests has been declared complete.
C1_Witness ==
    /\ prog = "udp"
    /\ announced
    /\ total_requests = 2
    /\ Len(log) = 3

\* A step that observes again the datagram observed just before it.
DupStep == ObserveStep /\ packet' = packet

C3_FirstIndexZeroWins ==
    [][(/\ ObserveStep
        /\ packet'.packet_id = 0
        /\ packet'.request_id \in DOMAIN requests
        /\ 0 \in requests[packet'.request_id].received_packets) =>
        LET a == requests[packet'.request_id]
            b == requests'[packet'.request_id]
        IN  /\ b.first_packet_send_time = a.first_packet_send_time
            /\ b.first_packet_recv_time = a.first_packet_recv_time]_vars

\* C4 (as stated): after an observe, the request's last_packet_recv_time is
\* the maximum of its previous value (0 for a new record) and the receive
\* time of this arrival, so it never decreases.
C4_LastRecvTimeIsMax ==
    [][ObserveStep =>
        LET rid == packet'.request_id
            old == IF rid \in DOMAIN requests
                   THEN requests[rid].last_packet_recv_time ELSE 0
        IN  requests'[rid].last_packet_recv_time = Max(old, recv_time')]_vars

\* C5 (as stated): observing a fragment with packet_id >= total_packets
\* changes no record, nor total_requests, highest_request_id, running, and
\* completes nothing.
C5_MalformedIsRejected ==
    [][(ObserveStep /\ packet'.packet_id >= packet'.total_packets) =>
        UNCHANGED <<requests, total_requests, highest_request_id, running,
                    announced>>]_vars

\* The output file holds the snapshot of the records as they are now: the
\* last write_results call (the final one, or the flush after the last
\* datagram) opened the file, and no datagram was processed since.
Fresh ==
    /\ opened
    /\ \/ pc = "done"
       \/ /\ prog = "udp"
          /\ pc \in {"loop", "recv", "exit"}
          /\ packet.request_id % FlushEvery = FlushEvery - 1

RowIds == {outfile[i].request_id : i \in 1..Len(outfile)}

CompleteIds == {r \in DOMAIN requests : requests[r].is_complete}

\* C6 (as stated): a snapshot holds exactly one row for each request whose
\* is_complete is true and no row for a request that is incomplete, in the
\* datagram and in the stream tracker, mid-session and at shutdown.
C6_SnapshotIsTheCompleteRequests ==
    Fresh =>
        /\ RowIds = CompleteIds
        /\ Len(outfile) = Cardinality(CompleteIds)

\* The entries of the log that belong to request r, in arrival order.
LogOf(r) == SelectSeq(log, LAMBDA e : e.p.request_id = r)

IndicesOf(es) == {es[i].p.packet_id : i \in 1..Len(es)}

\* C7: for a request all of whose fragments so far declare n fragments and
\* have an index below n, whatever their arrival order: is_complete is true
\* iff every index 0..n-1 has arrived (so it is false after a strict
\* subset), and when index 0 arrived once, first_packet_recv_time is the
\* receive time of that arrival.
C7_CompletionIgnoresOrder ==
    prog = "udp" =>
    \A r \in DOMAIN requests : \A n \in 1..3 :
        LET es == LogOf(r)
            zeros == SelectSeq(es, LAMBDA e : e.p.packet_id = 0)
        IN  (\A i \in 1..Len(es) :
                es[i].p.total_packets = n /\ es[i].p.packet_id < n) =>
            /\ requests[r].is_complete <=> IndicesOf(es) = 0..(n - 1)
            /\ Len(zeros) = 1 =>
                 requests[r].first_packet_recv_time = zeros[1].t

\* C7 witness: the three fragments of a request arrived in the order 2, 0, 1,
\* index 0 at time 2 and the last one at time 1, and the request is complete.
C7_Witness ==
    /\ prog = "udp"
    /\ Len(log) = 3
    /\ log[1].p.packet_id = 2
    /\ log[2].p.packet_id = 0
    /\ log[3].p.packet_id = 1
    /\ log[2].t = 2
    /\ log[3].t = 1
    /\ requests[0].is_complete
    /\ requests[0].first_packet_recv_time = 2

RECURSIVE MaxTotalOf(_)
MaxTotalOf(es) ==
    IF es = <<>> THEN 0
    ELSE Max(Head(es).p.total_requests, MaxTotalOf(Tail(es)))

\* C8: total_requests is the largest total_requests carried by any fragment
\* observed so far (0 before the first), and a session declared complete has
\* every request id below that value complete.
C8_TotalIsMaxSeen ==
    prog = "udp" =>
        /\ total_requests = MaxTotalOf(log)
        /\ announced => SessionComplete(requests, MaxTotalOf(log))

\* C8 witness: fragments carrying total_requests 1, 2, 1 arrived in that
\* order; the value was raised to 2, stayed 2, and the session of 2 requests
\* was then declared complete.
C8_Witness ==
    /\ prog = "udp"
    /\ Len(log) = 3
    /\ log[1].p.total_requests = 1
    /\ log[2].p.total_requests = 2
    /\ log[3].p.total_requests = 1
    /\ total_requests = 2
    /\ announced

\* a - b as the code computes it on uint64_t: the plain difference when
\* a >= b, and the difference wrapped around otherwise.
Diff64(a, b) == IF a >= b THEN a - b ELSE Wrap64 - (b - a)

\* C9: every row of a snapshot holds, for its request's record, the
\* differences first receive time - first send time and last receive time -
\* first receive time (header receive - send and data complete - header
\* receive in the stream tracker); and when the run received exactly the
\* three fragments 0, 1, 2 of request 0 in that order, the snapshot is the
\* single row t_recv0 - t_send0, t_recv2 - t_recv0.
C9_RowsAreTheDifferences ==
    Fresh =>
        /\ \A i \in 1..Len(outfile) :
            LET row == outfile[i]
                st == requests[row.request_id]
            IN  /\ row.request_id \in DOMAIN requests
                /\ IF prog = "udp"
                   THEN /\ row.first_packet_latency =
                             Diff64(st.first_packet_recv_time,
                                    st.first_packet_send_time)
                        /\ row.last_to_first_diff =
                             Diff64(st.last_packet_recv_time,
                                    st.first_packet_recv_time)
                   ELSE /\ row.transmission_delay =
                             Diff64(st.header_recv_time, st.send_time)
                        /\ row.data_reception_duration =
                             Diff64(st.data_complete_time,
                                    st.header_recv_time)
        /\ (/\ prog = "udp"
            /\ Len(log) = 3
            /\ \A i \in 1..3 : log[i].p.packet_id = i - 1
            /\ \A i \in 1..3 : log[i].p.total_packets = 3) =>
            outfile =
                <<[request_id |-> log[1].p.request_id,
                   first_packet_latency |->
                       Diff64(log[1].t, log[1].p.timestamp),
                   last_to_first_diff |-> Diff64(log[3].t, log[1].t)]>>

\* C9 witness: the three fragments of request 0 were received in order,
\* index 0 sent at 1 and received at 1, index 2 received at 2, and the final
\* snapshot holds the single row with latency 0 and spread 1.
C9_Witness ==
    /\ prog = "udp"
    /\ pc = "done"
    /\ opened
    /\ Len(log) = 3
    /\ \A i \in 1..3 : log[i].p.packet_id = i - 1 /\ log[i].p.total_packets = 3
    /\ log[1].p.timestamp = 1
    /\ log[1].t = 1
    /\ log[3].t = 2
    /\ outfile =
        <<[request_id |-> 0, first_packet_latency |-> 0,
           last_to_first_diff |-> 1]>>

\* C10: a run of write_results, at the periodic flush or at exit, leaves
\* requests, total_requests, highest_request_id and running as they were.
C10_WriteHasNoSideEffects ==
    [][WriteStep =>
        UNCHANGED <<requests, total_requests, highest_request_id,
                    running>>]_vars

\* C10 witness: a flush wrote a non-empty file mid-session and a later
\* datagram was observed with the records of before the flush in place.
C10_Witness ==
    /\ prog = "udp"
    /\ Len(log) = 2
    /\ log[1].p.request_id = FlushEvery - 1
    /\ log[2].p.request_id = 0
    /\ outfile # <<>>
    /\ opened
    /\ running
    /\ DOMAIN requests = {0, FlushEvery - 1}

\* ------------------------------------------ datagram emitter properties
\* the sendto calls of the run, and those of request r, in order
Sends == SelectSeq(trace, LAMBDA e : e.op = "sendto")

SendsOf(r) ==
    SelectSeq(trace, LAMBDA e : e.op = "sendto" /\ e.packet.request_id = r)

SizesOf(r) == [k \in 1..Len(SendsOf(r)) |-> SendsOf(r)[k].packet.data_size]

RECURSIVE SumSeq(_)
SumSeq(q) == IF q = <<>> THEN 0 ELSE q[1] + SumSeq(Tail(q))

\* ceil(B / M) for B >= 0, by its definition
Ceil(B, M) ==
    CHOOSE n \in 0..(B \div M + 1) : n * M >= B /\ (n = 0 \/ (n - 1) * M < B)

\* send_request for request r is over, by returning or by ending the process
RequestOver(r) == request_i > r \/ (pc = "aborted" /\ request_i = r)

\* the sizes ceil(B / M) fragments of a B-byte payload carry
IsSplitOf(sz, B) ==
    LET n == Ceil(B, MAX_PACKET_SIZE)
    IN  /\ Len(sz) = n
        /\ \A k \in 1..(n - 1) : sz[k] = MAX_PACKET_SIZE
        /\ n > 0 => /\ sz[n] = B - MAX_PACKET_SIZE * (n - 1)
                    /\ sz[n] \in 1..MAX_PACKET_SIZE
        /\ SumSeq(sz) = B

\* C11: for every bytes_to_send B >= 0, send_request sends ceil(B / M)
\* fragments, all but the last of M bytes, the last of B - M*(count-1)
\* bytes within 1..M, the sizes summing to B; none for B = 0.
C11_SplitIsCeil ==
    prog = "udp_server" =>
        \A r \in 0..(num_requests - 1) :
            RequestOver(r) => IsSplitOf(SizesOf(r), bytes_to_send)

\* the same, for the payloads whose count line 28 computes without overflow
C11_SplitIsCeilWithoutOverflow ==
    (prog = "udp_server" /\ bytes_to_send <= IntMax - (MAX_PACKET_SIZE - 1))
        => C11_SplitIsCeil

\* C12: every fragment sent has packet_id < total_packets and data_size <=
\* MAX_PACKET_SIZE; the fragments of one request carry the same
\* total_packets, request_id and total_requests; and they are sent with
\* packet_id 0, 1, ... in order, none skipped or repeated, up to
\* total_packets - 1 when send_request returns.
C12_FragmentsAreWellFormedAndInOrder ==
    prog = "udp_server" =>
        /\ \A j \in 1..Len(Sends) :
                Sends[j].packet.request_id \in 0..(num_requests - 1)
        /\ \A r \in 0..(num_requests - 1) :
            LET s == SendsOf(r)
            IN  /\ \A k \in 1..Len(s) :
                    /\ s[k].packet.packet_id = k - 1
                    /\ s[k].packet.packet_id < s[k].packet.total_packets
                    /\ s[k].packet.data_size <= MAX_PACKET_SIZE
                    /\ s[k].packet.total_packets = s[1].packet.total_packets
                    /\ s[k].packet.request_id = r
                    /\ s[k].packet.total_requests = num_requests
                /\ (request_i > r /\ Len(s) > 0)
                        => Len(s) = s[1].packet.total_packets

\* two requests of three fragments each have been sent
C12_Witness ==
    /\ prog = "udp_server"
    /\ pc = "done"
    /\ num_requests = 2
    /\ Len(SendsOf(0)) = 3
    /\ Len(SendsOf(1)) = 3

\* the clock readings of the run are non-decreasing
ClockNonDecreasing ==
    LET nows == SelectSeq(trace, LAMBDA e : e.op = "now")
    IN  \A a, b \in 1..Len(nows) : a <= b => nows[a].t <= nows[b].t

\* C13: each fragment's timestamp is the clock reading taken right before
\* its own sendto, after the previous fragment's sendto; so under a
\* non-decreasing clock the timestamps are non-decreasing in the order of
\* sending, within a request and across requests.
C13_TimestampReadBeforeEachSend ==
    prog = "udp_server" =>
        /\ \A j \in 1..Len(trace) :
            trace[j].op = "sendto" =>
                /\ j > 1
                /\ trace[j - 1].op = "now"
                /\ trace[j - 1].t = trace[j].packet.timestamp
        /\ ClockNonDecreasing =>
            \A a, b \in 1..Len(Sends) :
                a <= b => Sends[a].packet.timestamp <= Sends[b].packet.timestamp

\* the clock moved between two fragments of one request and again before
\* the next request
C13_Witness ==
    /\ prog = "udp_server"
    /\ pc = "done"
    /\ ClockNonDecreasing
    /\ Len(SendsOf(0)) = 2
    /\ SendsOf(0)[1].packet.timestamp < SendsOf(0)[2].packet.timestamp
    /\ Len(SendsOf(1)) = 2

\* C14: a failed send is reported to the caller: the emitter ends with
\* the message of success and status 0 only when every sendto succeeded.
C14_FailedSendIsReported ==
    (prog = "udp_server" /\ pc = "done") =>
        (trace[Len(trace)].status = 0 =>
            \A j \in 1..Len(Sends) : Sends[j].ok)

\* ------------------------------------------------- shutdown properties
\* C15: once the shutdown flag is set, by the signal or by the session
\* being complete, the tracker, datagram or stream, eventually leaves its
\* loop and runs write_results.
C15_ShutdownWritesSnapshot == (~running) ~> (pc = "done")

\* the same, for the datagram tracker alone
C15_DatagramShutdownWritesSnapshot ==
    (prog = "udp" /\ ~running) ~> (pc = "done")

\* C16: in the payload loop of the stream tracker total_received +
\* remaining is data_size throughout, and a request is stored, with
\* is_complete true, only when remaining has reached 0, all data_size
\* bytes having arrived.
StoreStep == prog = "tcp" /\ pc = "data" /\ pc' \in {"inner", "close"}
                /\ requests' # requests

C16_PayloadLoopAccumulates ==
    /\ [](prog = "tcp" => total_received + remaining = header.data_size)
    /\ [][StoreStep => remaining = 0 /\ total_received = header.data_size]_vars

\* the same, for the headers whose data_size fits an int
C16_PayloadLoopAccumulatesInts ==
    /\ [](prog = "tcp" /\ header.data_size < Wrap32 \div 2
            => total_received + remaining = header.data_size)
    /\ [][StoreStep /\ header.data_size < Wrap32 \div 2
            => remaining = 0 /\ total_received = header.data_size]_vars

\* C17: when a recv of the payload loop reports closure or an error with
\* bytes still missing, no record is created or changed, the count of
\* received requests and the flag stay as they are, the connection is
\* closed, and the tracker goes back to the loop test and, still running,
\* to accept.
DataFailStep == prog = "tcp" /\ pc = "data" /\ pc' = "close" /\ remaining > 0

C19_FlagStopsNewIterations ==
    /\ [][(prog = "udp" /\ ~running) => ~running']_vars
    /\ [][(prog = "udp" /\ ~running /\ pc # "recv") => pc' # "recv"]_vars
    /\ (prog = "udp" /\ ~running) ~> (pc = "done")

\* the tracker has ended on the signal, the session not complete, after
\* it observed fragments
C19_Witness ==
    /\ prog = "udp"
    /\ pc = "done"
    /\ ~announced
    /\ Len(log) >= 1

\* C20: a recvfrom that fails or times out changes nothing of the session
\* (requests, total_requests, highest_request_id, running, what was
\* observed, what was written), and the tracker, still running, receives
\* again.
RecvFailStep == prog = "udp" /\ pc = "recv" /\ pc' = "loop"

C20_ReceiveErrorIsLocal ==
    /\ [][RecvFailStep =>
            UNCHANGED <<requests, total_requests, highest_request_id,
                        running, announced, packet, recv_time, log,
                        outfile>>]_vars
    /\ [][(prog = "udp" /\ pc = "loop" /\ running /\ pc' # pc)
            => pc' = "recv"]_vars

\* a session was declared complete after a receive had failed
C20_Witness ==
    /\ prog = "udp"
    /\ recv_failed
    /\ announced
    /\ Len(log) >= 2

\* ------------------------------------------- trigger emitter properties
\* the event at place j of the trace is a recv of the 4-byte token
ValidAt(j) ==
    trace[j].op = "recv" /\ trace[j].n = 4 /\ trace[j].data = TRIG

IsSendAt(j, what) == trace[j].op = "send" /\ trace[j].what = what

\* a recv returned bytes that are not a trigger
InvalidStep ==
    /\ prog = "aws_server"
    /\ pc = "wait"
    /\ Len(trace') = Len(trace) + 1
    /\ trace'[Len(trace')].op = "recv"
    /\ trace'[Len(trace')].n > 0

\* C18: a received value that is not the token is passed over: nothing is
\* sent for it, requests_sent and the flag keep their values and the
\* emitter goes back to the loop test; every header sent answers the token
\* received just before it, every token is answered by one header and, for
\* bytes_per_request > 0, one payload after it; and requests_sent is the
\* number of tokens received.
C18_OnlyTriggersAreServed ==
    /\ [](prog = "aws_server" =>
            /\ \A j \in 1..Len(trace) :
                /\ IsSendAt(j, "header") => j > 1 /\ ValidAt(j - 1)
                /\ IsSendAt(j, "payload") =>
                        /\ j > 2
                        /\ IsSendAt(j - 1, "header")
                        /\ bytes_per_request > 0
                /\ ValidAt(j) =>
                        /\ j < Len(trace)
                        /\ IsSendAt(j + 1, "header")
                        /\ (bytes_per_request > 0
                                /\ trace[j + 1].outcome # "sigpipe")
                            => j + 1 < Len(trace) /\ IsSendAt(j + 2, "payload")
            /\ pc # "killed" =>
                requests_sent = Cardinality({j \in 1..Len(trace) : ValidAt(j)}))
    /\ [][InvalidStep =>
            pc' = "while" /\ UNCHANGED <<requests_sent, running>>]_vars

\* a 4-byte value that is not the token was passed over and the two
\* tokens after it were served
C18_Witness ==
    /\ prog = "aws_server"
    /\ pc = "closed"
    /\ requests_sent = 2
    /\ Len(Recvs) = 3
    /\ Recvs[1].data = <<"P", "I", "N", "G">>
    /\ Recvs[2].data = TRIG
    /\ Recvs[3].data = TRIG

\* ---------------------------------------------------------------------
\* Properties of the datagram tracker's session state (C21..C28)

\* the requests map, total_requests and highest_request_id that result
\* from applying the whole of lines 158-195 to each logged datagram in turn
RECURSIVE Replay(_)
Replay(es) ==
    IF es = <<>>
    THEN [requests |-> <<>>, total_requests |-> 0, highest_request_id |-> 0]
    ELSE LET before == Replay(SubSeq(es, 1, Len(es) - 1))
             e == es[Len(es)]
         IN  [requests |-> ObserveRequests(before.requests, e.p, e.t),
              total_requests |->
                  UpdateTotalRequests(before.total_requests, e.p),
              highest_request_id |->
                  UpdateHighest(before.highest_request_id, e.p)]

\* A step of the signal handler.
SignalStep == running /\ ~running' /\ UNCHANGED pc

LastRequestUnseen ==
    \A i \in 1..Len(log) : log[i].p.request_id # total_requests - 1

\* C22: as long as no fragment whose request_id is total_requests - 1 has
\* been received, the datagram tracker has not declared the session
\* complete, whatever else has arrived; only the signal handler clears the
\* flag in that time, and the loop is left only with the flag cleared.
C22_NoLastRequestNoCompletion ==
    /\ [](prog = "udp" /\ LastRequestUnseen =>
            /\ ~announced
            /\ \A i \in 1..Len(console) :
                    console[i].said # "All requests completed")
    /\ [][prog = "udp" /\ LastRequestUnseen' /\ running /\ ~running' =>
            UNCHANGED <<pc, requests, udpvars, log, console>>]_vars
    /\ [][prog = "udp" /\ pc = "loop" /\ pc' = "exit" => ~running]_vars

\* C22 witness: of a session of two requests, request 0 is complete and a
\* datagram of request 9 arrived as well, none of request 1 did; the tracker
\* waits for the next datagram.
C22_Witness ==
    /\ prog = "udp"
    /\ pc = "recv"
    /\ running
    /\ ~announced
    /\ total_requests = 2
    /\ Len(log) = 3
    /\ LastRequestUnseen
    /\ requests[0].is_complete
    /\ 9 \in DOMAIN requests

\* the fragments the emitter sends in a run of N requests of n fragments
EmitterFragments(N, n) ==
    {p \in DeliveryTraffic :
        /\ p.total_requests = N
        /\ p.total_packets = n}

LogPackets == {log[i].p : i \in 1..Len(log)}

\* every fragment of such a run has been received at least once, and nothing
\* else has
AllDelivered ==
    \E N \in 1..2, n \in 1..2 : LogPackets = EmitterFragments(N, n)

\* C23: when the datagrams received so far are fragments of one run of the
\* emitter, in any order and any number of times each, the session is
\* declared complete and the flag cleared by the very observe that receives
\* the last fragment still missing, not before; with no signal, the tracker
\* then leaves its loop, runs write_results and ends.
C23_DeliveryCompletesTheSession ==
    /\ [](\A N \in 1..2, n \in 1..2 :
            LogPackets \subseteq EmitterFragments(N, n) =>
                /\ announced <=> LogPackets = EmitterFragments(N, n)
                /\ announced <=> ~running)
    /\ AllDelivered ~> (announced /\ pc = "done")

\* C23 witness: of a session of two single-fragment requests, request 1
\* arrived twice and then request 0; the session was declared complete and
\* the tracker ended.
C23_Witness ==
    /\ prog = "udp"
    /\ pc = "done"
    /\ announced
    /\ Len(log) = 3
    /\ log[1].p.request_id = 1
    /\ log[2] = log[1]
    /\ log[3].p.request_id = 0
    /\ LogPackets = EmitterFragments(2, 1)

RECURSIVE MaxIdOf(_)
MaxIdOf(es) ==
    IF es = <<>> THEN 0
    ELSE Max(Head(es).p.request_id, MaxIdOf(Tail(es)))

\* C24: no step of the datagram tracker lowers total_requests or
\* highest_request_id, removes a request's record, removes an index from a
\* record's received_packets or clears a record's is_complete; and
\* highest_request_id is the largest request_id received so far (0 before
\* the first).
C24_ObserveIsMonotonic ==
    /\ [](prog = "udp" => highest_request_id = MaxIdOf(log))
    /\ [][prog = "udp" =>
            /\ total_requests' >= total_requests
            /\ highest_request_id' >= highest_request_id
            /\ DOMAIN requests \subseteq DOMAIN requests'
            /\ \A r \in DOMAIN requests :
                /\ requests[r].received_packets \subseteq
                        requests'[r].received_packets
                /\ requests[r].is_complete => requests'[r].is_complete]_vars

\* C24 witness: request 0 was completed by its only fragment; then came a
\* fragment of request 1 declaring a smaller total_requests, and then index 1
\* of request 0 declaring two fragments: both records are there, request 0
\* holds both indices and is still complete, total_requests is still 2.
C24_Witness ==
    /\ prog = "udp"
    /\ Len(log) = 3
    /\ log[1].p.request_id = 0
    /\ log[1].p.total_packets = 1
    /\ log[1].p.total_requests = 2
    /\ log[2].p.request_id = 1
    /\ log[2].p.total_requests = 1
    /\ log[3].p.request_id = 0
    /\ log[3].p.packet_id = 1
    /\ total_requests = 2
    /\ highest_request_id = 1
    /\ DOMAIN requests = {0, 1}
    /\ requests[0].received_packets = {0, 1}
    /\ requests[0].is_complete

\* C25 (as stated): in every state a record's is_complete is true exactly
\* when the number of distinct indices received for the request equals the
\* fragment count declared by the first fragment received for it, whatever
\* count later fragments of the request declare.
C25_CompleteIffExpectedCount ==
    prog = "udp" =>
    \A r \in DOMAIN requests :
        LET expected_fragment_count == LogOf(r)[1].p.total_packets
        IN  requests[r].is_complete <=>
                Cardinality(requests[r].received_packets) =
                    expected_fragment_count

\* the "Request r completed" messages printed so far
CompletedSaid(r) ==
    SelectSeq(console, LAMBDA m : m.said = "Request completed" /\ m.id = r)

SessionSaid ==
    SelectSeq(console, LAMBDA m : m.said = "All requests completed")

\* The record of the request of the datagram received in this step goes
\* from incomplete (or absent) to complete.
BecomesComplete ==
    LET r == packet'.request_id
    IN  /\ requests'[r].is_complete
        /\ r \in DOMAIN requests => ~requests[r].is_complete

\* C26 (as stated): the "Request N completed" message is printed at most
\* once for a request, by the observe that takes its record from incomplete
\* to complete and by no later observe, duplicates included; the session
\* message is printed at most once.
C26_CompletionSaidOnce ==
    /\ [](prog = "udp" =>
            /\ \A r \in DOMAIN requests : Len(CompletedSaid(r)) <= 1
            /\ Len(SessionSaid) <= 1)
    /\ [][ObserveStep =>
            IF BecomesComplete
            THEN Len(console') > Len(console)
                    /\ console'[Len(console) + 1] =
                        [said |-> "Request completed",
                         id |-> packet'.request_id]
            ELSE \A i \in (Len(console) + 1)..Len(console') :
                    console'[i].said # "Request completed"]_vars

\* ---------------------------------------------------------------------
\* Properties of the stream tracker's session (C27)

\* C27 (as stated): the stream tracker has declared the session complete
\* only if every request_id below expected_total_requests has a complete
\* record, whatever headers arrived, a repeated request_id or a header
\* with another total_requests included.
C27_StreamSessionCompleteIsSound ==
    prog = "tcp" /\ announced =>
        SessionComplete(requests, expected_total_requests)

\* ---------------------------------------------------------------------
\* Properties of the datagram tracker's timing fields (C28)

\* every fragment received for request r has an index below its
\* total_packets, and all of them declare the same total_packets
WellFormedFor(r) ==
    LET es == LogOf(r)
    IN  \A i \in 1..Len(es) :
            /\ es[i].p.packet_id < es[i].p.total_packets
            /\ es[i].p.total_packets = es[1].p.total_packets

\* the receive clock did not go back between two receives
RecvClockNonDecreasing ==
    \A i, j \in 1..Len(log) : i <= j => log[i].t <= log[j].t

\* C28: a request marked complete from well-formed fragments has received
\* index 0, so its first_packet_recv_time is set (not 0); when the receive
\* clock never goes back, first_packet_recv_time <= last_packet_recv_time
\* and the 64-bit difference written as the spread is the true difference.
C28_CompleteHasFirstBeforeLast ==
    prog = "udp" =>
    \A r \in DOMAIN requests :
        requests[r].is_complete /\ WellFormedFor(r) =>
            /\ 0 \in requests[r].received_packets
            /\ requests[r].first_packet_recv_time # 0
            /\ RecvClockNonDecreasing =>
                /\ requests[r].first_packet_recv_time <=
                        requests[r].last_packet_recv_time
                /\ Sub64(requests[r].last_packet_recv_time,
                         requests[r].first_packet_recv_time) =
                    requests[r].last_packet_recv_time -
                        requests[r].first_packet_recv_time

\* C28 witness: the fragments of a request of three arrived in the order
\* 1, 0, 2 at times 1, 1, 2; the request is complete with first receive
\* time 1 and last receive time 2.
C28_Witness ==
    /\ prog = "udp"
    /\ Len(log) = 3
    /\ log[1].p.packet_id = 1 /\ log[1].t = 1
    /\ log[2].p.packet_id = 0 /\ log[2].t = 1
    /\ log[3].p.packet_id = 2 /\ log[3].t = 2
    /\ requests[0].is_complete
    /\ requests[0].first_packet_recv_time = 1
    /\ requests[0].last_packet_recv_time = 2

\* ---------------------------------------------------------------------
\* Properties of the trigger emitter's loop (C29)

HeaderSends == SelectSeq(trace, LAMBDA e : e.op = "send" /\ e.what = "header")

Closes == SelectSeq(trace, LAMBDA e : e.op = "close")

\* The loop test finds the count reached or the flag cleared.
LoopOver == pc = "while" /\ (requests_sent >= num_requests \/ ~running)

\* C29: the trigger emitter answers at most num_requests triggers on a
\* connection; once the loop test finds num_requests requests sent or the
\* flag cleared, or a recv reports that the peer closed, nothing more is
\* sent, the function returns and the connection is closed, once, as the
\* last thing done to it.
C29_TriggerLoopEnds ==
    /\ [](prog = "aws_server" =>
            /\ requests_sent <= num_requests
            /\ Len(HeaderSends) <= num_requests
            /\ Len(Closes) <= 1
            /\ pc = "closed" <=> Len(Closes) = 1
            /\ Len(Closes) = 1 => trace[Len(trace)].op = "close")
    /\ [][prog = "aws_server" /\ (LoopOver \/ pc \in {"return", "closed"}) =>
            /\ pc' \in {pc, "return", "closed"}
            /\ Len(HeaderSends') = Len(HeaderSends)
            /\ UNCHANGED requests_sent]_vars
    /\ [][/\ prog = "aws_server"
          /\ pc = "wait"
          /\ Len(trace') > Len(trace)
          /\ trace'[Len(trace) + 1].n = 0
          => pc' = "return" /\ Len(trace') = Len(trace) + 1]_vars
    /\ (prog = "aws_server" /\ (LoopOver \/ pc = "return"))
            ~> (pc = "closed")

\* C29 witness: two requests were asked for; the third trigger to arrive was
\* the second valid one, the loop ended there and the connection was closed.
C29_Witness ==
    /\ prog = "aws_server"
    /\ pc = "closed"
    /\ running
    /\ num_requests = 2
    /\ requests_sent = 2
    /\ Len(Recvs) = 3
    /\ Len(HeaderSends) = 2
    /\ trace[Len(trace)].op = "close"

\* ---------------------------------------------------------------------
\* Properties of concurrent phone connections (C30)

\* The thread of connection a takes a step on what its recv returned.
ReceivesOn(a) ==
    /\ prog = "aws_listener"
    /\ handlers[a].pc = "wait"
    /\ \/ handlers'[a].received = handlers[a].received + 1
       \/ handlers'[a].pc = "return"

\* C30 (as stated): whatever one connection's recv returns, a trigger, an
\* invalid packet or the peer's disconnect, and whatever becomes of the
\* answer sent on it, the step changes nothing of the thread of any other
\* connection: its requests_sent, its position and its locals stay as they
\* are, so what it sends depends on its own socket alone.
C30_HandlersAreIndependent ==
    [][\A a \in Phones :
        ReceivesOn(a) =>
            \A b \in Phones \ {a} : handlers'[b] = handlers[b]]_vars

====
